---- MODULE Spec2Model ----
(***************************************************************************)
(* itop (src/main.rs): the controller loop of a terminal dashboard.        *)
(*                                                                         *)
(* The model follows main(): each iteration draws the data model, takes    *)
(* the next event from the event source and dispatches it to one arm of    *)
(* the match.  A Tick samples CPU and memory into two bounded history      *)
(* buffers and, every eighth tick or when the sort mode was changed,       *)
(* rebuilds the process table with get_processes.  Key events move the     *)
(* highlight, toggle the selection, request a sort mode or leave the loop. *)
(*                                                                         *)
(* Specifications:                                                        *)
(*  - Spec: the loop with the event source left open (any event may come   *)
(*    next), on small process lists;                                       *)
(*  - SpecLong: the loop over more than BUFFER_CAPACITY ticks, Memory sort *)
(*    never requested;                                                     *)
(*  - SpecAgg: the first refreshes on process lists of up to MaxAggNames   *)
(*    names;                                                               *)
(*  - SpecChan: the loop fed through the channel by the ticker and the     *)
(*    input producer (module event, described in the specification only).  *)
(*                                                                         *)
(* Values:                                                                 *)
(*  - a process name is a positive integer, None is 0 (Option<String>);    *)
(*  - a u64 is four 16-bit limbs <<w3, w2, w1, w0>>, most significant      *)
(*    first, and a u32 is two limbs, so that the `as u32` cast of          *)
(*    get_processes keeps its width;                                       *)
(*  - an f32 CPU usage is counted in quarters of a percent: the inputs are *)
(*    restricted to multiples of 0.25, on which f32 addition and the       *)
(*    multiplication by 100 are exact.                                     *)
(***************************************************************************)
EXTENDS Integers, Sequences, FiniteSets, TLC

(* ------------------------------ bounds -------------------------------- *)

\* Ticks the event source delivers under Spec.
MaxTicks == 9

\* The metrics source replays one of the reading streams 0..MaxSeed.
MaxSeed == 1

\* Ticks the event source delivers under SpecLong.
MaxLongTicks == 1002

\* Events the two producers enqueue under SpecChan.
MaxSent == 3

\* Ticks the event source delivers under SpecAgg.
MaxAggTicks == 1

\* Distinct process names of the largest process list under SpecAgg.
MaxAggNames == 102

(* -------------------------- program constants ------------------------- *)

BUFFER_CAPACITY == 1000

\* .take(100) in get_processes
TakeLimit == 100

\* i % 8 in the Tick arm
RefreshEvery == 8

None == 0

NoEvent == "none"

Keys == {"Up", "Down", "Enter", "m", "c", "q", "Ctrl-c", "x"}

Events == {"Tick"} \cup Keys

Sorts == {"Cpu", "Memory"}

(* ------------------------------ integers ------------------------------ *)

Limb == 2^16

Min(a, b) == IF a <= b THEN a ELSE b

\* The u64 hi * 2^32 + lo, for hi < 2^16 and lo < 2^31.
Mem(hi, lo) == <<0, hi, lo \div Limb, lo % Limb>>

U64Zero == <<0, 0, 0, 0>>

\* memory += process.memory(): u64 addition (wrapping, as a release build).
U64Add(a, b) ==
    LET s4 == a[4] + b[4]
        s3 == a[3] + b[3] + (s4 \div Limb)
        s2 == a[2] + b[2] + (s3 \div Limb)
        s1 == a[1] + b[1] + (s2 \div Limb)
    IN  <<s1 % Limb, s2 % Limb, s3 % Limb, s4 % Limb>>

\* (x) as u32 of a u64: the low 32 bits.
AsU32(m) == <<m[3], m[4]>>

\* (cpu_usage * 100f32) as u32, cpu_usage counted in quarters of a percent.
CpuAsU32(q) == <<(q * 25) \div Limb, (q * 25) % Limb>>

\* a < b on u32 values.
U32Less(a, b) == a[1] < b[1] \/ (a[1] = b[1] /\ a[2] < b[2])

(* ------------------------------ sequences ----------------------------- *)

\* The sequence with the elements of the function f on 1..n.
AsSeq(f) == f \o <<>>

Reverse(s) == AsSeq([k \in 1..Len(s) |-> s[Len(s) - k + 1]])

Front(s) == SubSeq(s, 1, Len(s) - 1)

\* The sequences that list every element of S exactly once.
Perms(S) ==
    {f \in [1..Cardinality(S) -> S] : \A a, b \in 1..Cardinality(S) : f[a] = f[b] => a = b}

\* The positive integers of S in ascending order.
Ascending(S) ==
    IF S = {} THEN <<>>
    ELSE LET max == CHOOSE x \in S : \A y \in S : y <= x
         IN  SelectSeq(AsSeq([k \in 1..max |-> k]), LAMBDA x : x \in S)

(* --------------------------- get_processes ---------------------------- *)

Names(procList) == {procList[k].name : k \in 1..Len(procList)}

\* The orders in which the group map may hand out its groups: a hash map
\* iterates in an arbitrary order.
Orders(procList) ==
    IF Cardinality(Names(procList)) <= 3
    THEN Perms(Names(procList))
    ELSE {Ascending(Names(procList)), Reverse(Ascending(Names(procList)))}

RECURSIVE fold_group_assigns(_, _)
\* As fold_group, with memory = in place of memory +=.
fold_group_assigns(group, acc) ==
    IF group = <<>> THEN acc
    ELSE fold_group_assigns(Tail(group),
                            [acc EXCEPT !.cpu_usage = @ + Head(group).cpu_usage,
                                        !.memory = Head(group).memory])

RECURSIVE fold_group(_, _)
\* for process in &group { cpu_usage += ..; memory += .. }
fold_group(group, acc) ==
    IF group = <<>> THEN acc
    ELSE fold_group(Tail(group),
                    [acc EXCEPT !.cpu_usage = @ + Head(group).cpu_usage,
                                !.memory = U64Add(@, Head(group).memory)])

group_meta(procList, name) ==
    LET group == SelectSeq(procList, LAMBDA p : p.name = name)
    IN  fold_group(group,
                   [name |-> name, cpu_usage |-> 0, memory |-> U64Zero,
                    count |-> Len(group)])

sort_key(p, sort) ==
    IF sort = "Memory" THEN AsU32(p.memory) ELSE CpuAsU32(p.cpu_usage)

\* sort_by_key(|p| Reverse(key)): a stable sort, descending by key.  An
\* element lands behind the elements of larger key and behind the earlier
\* elements of equal key.
sort_by_key(ps, sort) ==
    LET key == AsSeq([k \in 1..Len(ps) |-> sort_key(ps[k], sort)])
        place == AsSeq([k \in 1..Len(ps) |->
                          1 + Cardinality({j \in 1..Len(ps) :
                                             \/ U32Less(key[k], key[j])
                                             \/ key[j] = key[k] /\ j < k})])
    IN  AsSeq([n \in 1..Len(ps) |-> ps[CHOOSE k \in 1..Len(ps) : place[k] = n]])

take(ps, n) == SubSeq(ps, 1, Min(Len(ps), n))

get_processes(procList, sort, order) ==
    LET processes_ == AsSeq([k \in 1..Len(order) |-> group_meta(procList, order[k])])
    IN  take(sort_by_key(processes_, sort), TakeLimit)

(* ----------------------------- navigation ----------------------------- *)

RECURSIVE skip_while(_, _)
\* .skip_while(|&p| p.name != *highlighted)
skip_while(ps, name) ==
    IF ps = <<>> THEN <<>>
    ELSE IF Head(ps).name # name THEN skip_while(Tail(ps), name)
    ELSE ps

\* As next_after, keeping a name the table no longer holds.
next_after_keeps_stale(ps, name) ==
    LET rest == skip_while(ps, name)
    IN  IF Len(rest) >= 2 THEN rest[2].name
        ELSE IF rest = <<>> THEN name ELSE None

\* .skip_while(..).skip(1).next() and the two branches on its result.
next_after(ps, name) ==
    LET rest == skip_while(ps, name)
    IN  IF Len(rest) >= 2 THEN rest[2].name ELSE None

move_up(ps, h) ==
    IF h # None THEN next_after(Reverse(ps), h) ELSE h

\* As move_down, wrapping from the last row to the first.
move_down_wraps(ps, h) ==
    IF h # None
    THEN IF next_after(ps, h) # None THEN next_after(ps, h)
         ELSE IF ps # <<>> THEN ps[1].name ELSE None
    ELSE IF ps # <<>> THEN ps[1].name ELSE None

\* As move_down, entering the table at its last row.
move_down_from_bottom(ps, h) ==
    IF h # None THEN next_after(ps, h)
    ELSE IF ps # <<>> THEN ps[Len(ps)].name ELSE None

move_down(ps, h) ==
    IF h # None THEN next_after(ps, h)
    ELSE IF ps # <<>> THEN ps[1].name ELSE None

\* As confirm, clearing the selection when nothing is highlighted.
confirm_clears_when_unset(h, s) ==
    IF h # None /\ s # None /\ h = s THEN None
    ELSE IF h # None THEN h
    ELSE None

\* As confirm, without the arm that clears the selection.
confirm_no_toggle(h, s) ==
    IF h # None THEN h ELSE s

\* match (&app.highlighted, &app.selected): the new app.selected.
confirm(h, s) ==
    IF h # None /\ s # None /\ h = s THEN None
    ELSE IF h # None /\ s # None /\ h # s THEN h
    ELSE IF h # None /\ s = None THEN h
    ELSE s

\* As is_exit, without the interrupt key.
is_exit_q_only(input) == input = "q"

is_exit(input) == input = "Ctrl-c" \/ input = "q"

(* --------------------------- history buffers -------------------------- *)

\* As push_sample, with pop_front in place of pop_back.
push_sample_pop_front(buf, x) ==
    LET pushed == <<x>> \o buf
    IN  IF Len(pushed) > BUFFER_CAPACITY THEN Tail(pushed) ELSE pushed

\* push_front, then pop_back when the length exceeds BUFFER_CAPACITY.
push_sample(buf, x) ==
    LET pushed == <<x>> \o buf
    IN  IF Len(pushed) > BUFFER_CAPACITY THEN Front(pushed) ELSE pushed

\* The metrics source: the n-th reading of stream s, a percentage.
CpuReading(s, n) == (37 * n + 11 * s + (n \div 101)) % 101

MemReading(s, n) == (53 * n + 29 * s + 7 + (n \div 101)) % 101

\* system.get_total_memory()
TotalMemory == Mem(0, 16777216)

\* As update_processes_now, with the counter incremented before the test.
\* As update_processes_now, on the cadence only.
update_processes_now_cadence_only(n, s, w) == n % RefreshEvery = 0

update_processes_now_late(n, s, w) == (n + 1) % RefreshEvery = 0 \/ s # w

\* let update_processes = i % 8 == 0 || sort_updated
update_processes_now(n, s, w) == n % RefreshEvery = 0 \/ s # w

\* As reconcile, never taking the requested mode.
reconcile_never(s, w) == s

\* if sort_updated { app.sort = app.wants_sort }: the new app.sort.
reconcile(s, w) == IF s # w THEN w ELSE s

(* ------------------------------- inputs ------------------------------- *)

Proc(name, cpu, mem) == [name |-> name, cpu_usage |-> cpu, memory |-> mem]

OsLists ==
    { <<>>,
      <<Proc(1, 8, Mem(0, 500))>>,
      <<Proc(1, 8, Mem(0, 500)), Proc(2, 40, Mem(0, 300)), Proc(1, 6, Mem(0, 100))>>,
      <<Proc(1, 2, Mem(1, 0)), Proc(2, 12, Mem(0, 70000)), Proc(3, 5, Mem(0, 90000))>>,
      <<Proc(3, 4, Mem(0, 200)), Proc(2, 4, Mem(0, 200))>> }

QuietOsLists == { <<Proc(1, 8, Mem(0, 500))>> }

\* Every event but the request for Memory sort.
QuietEvents == Events \ {"m"}

\* A process list of n + d processes under n distinct names; the memory of
\* kind 1 reaches 2^32 and more.
GenOs(n, d, kind) ==
    [k \in 1..(n + d) |->
        Proc(((k - 1) % n) + 1,
             (7 * k) % 13,
             IF kind = 0 THEN Mem(0, 1000 * k)
             ELSE Mem(k % 3, (40503 * k) % 70001))]

AggSizes == (0..3) \cup ((TakeLimit - 1)..MaxAggNames)

AggOsLists ==
    {GenOs(n, d, kind) : n \in AggSizes \ {0}, d \in {0, 2}, kind \in {0, 1}}
        \cup {<<>>}

(* -------------------------------- state ------------------------------- *)

VARIABLES
    pc,            \* position in main's loop: "draw", "next", "match", "done"
    ev,            \* the event events.next() returned, NoEvent outside the match
    i,             \* let mut i = 0
    cpu,           \* app.cpu, front first
    memory,        \* app.memory, front first
    processes,     \* app.processes
    total_memory,  \* app.total_memory
    highlighted,   \* app.highlighted
    selected,      \* app.selected
    sort,          \* app.sort
    wants_sort,    \* app.wants_sort
    procList,      \* app.system: the process list of the last refresh_processes
    seed,          \* app.system: the stream of readings the metrics source gives
    cpuPushed,     \* history: every sample pushed to app.cpu, oldest first
    memPushed,     \* history: every sample pushed to app.memory, oldest first
    refreshes,     \* history: the number of update_processes calls
    seenNames,     \* history: the names of all the tables app.processes has held
    frame,         \* history: the data model the last terminal.draw was given
    queue,         \* the channel of the event source
    sentLog,       \* history: every event enqueued, in order
    recvLog        \* history: every event dequeued, in order

vars == <<pc, ev, i, cpu, memory, processes, total_memory, highlighted, selected,
          sort, wants_sort, procList, seed, cpuPushed, memPushed, refreshes,
          seenNames, frame, queue, sentLog, recvLog>>

appVars == <<cpu, memory, processes, total_memory, highlighted, selected,
             sort, wants_sort>>

histVars == <<procList, cpuPushed, memPushed, refreshes, seenNames>>

chanVars == <<queue, sentLog, recvLog>>

Init ==
    /\ pc = "draw"
    /\ ev = NoEvent
    /\ i = 0
    /\ cpu = <<>>
    /\ memory = <<>>
    /\ processes = <<>>
    /\ total_memory = U64Zero
    /\ highlighted = None
    /\ selected = None
    /\ sort = "Cpu"
    /\ wants_sort = "Cpu"
    /\ procList = <<>>
    /\ seed \in 0..MaxSeed
    /\ cpuPushed = <<>>
    /\ memPushed = <<>>
    /\ refreshes = 0
    /\ seenNames = {}
    /\ frame = <<>>
    /\ queue = <<>>
    /\ sentLog = <<>>
    /\ recvLog = <<>>

(* ------------------------------- actions ------------------------------ *)

\* terminal.draw(..)
Draw ==
    /\ pc = "draw"
    /\ frame' = appVars
    /\ pc' = "next"
    /\ UNCHANGED <<ev, i, seed>>
    /\ UNCHANGED <<appVars, histVars, chanVars>>

\* events.next(), the event source left open: any event may be next.
next_from(events, maxTicks) ==
    /\ pc = "next"
    /\ \E e \in events :
         /\ e = "Tick" => i < maxTicks
         /\ ev' = e
    /\ pc' = "match"
    /\ UNCHANGED <<i, seed, frame>>
    /\ UNCHANGED <<appVars, histVars, chanVars>>

EventsNext == next_from(Events, MaxTicks)

\* The end of a match arm: back to the top of the loop.
\* As EndArm, going round the loop without drawing.
EndArm_skips_draw ==
    /\ pc' = "next"
    /\ ev' = NoEvent
    /\ UNCHANGED <<seed, frame, chanVars>>

EndArm ==
    /\ pc' = "draw"
    /\ ev' = NoEvent
    /\ UNCHANGED <<seed, frame, chanVars>>

\* Event::Input(k) if k == Key::Up || k == Key::Char('k')
KeyUp ==
    /\ pc = "match" /\ ev = "Up"
    /\ highlighted' = move_up(processes, highlighted)
    /\ EndArm
    /\ UNCHANGED <<i, cpu, memory, processes, total_memory, selected, sort, wants_sort>>
    /\ UNCHANGED histVars

\* As KeyDown, a selection following the highlight.
KeyDown_selection_follows ==
    /\ pc = "match" /\ ev = "Down"
    /\ highlighted' = move_down(processes, highlighted)
    /\ selected' = IF selected # None THEN highlighted' ELSE selected
    /\ EndArm
    /\ UNCHANGED <<i, cpu, memory, processes, total_memory, sort, wants_sort>>
    /\ UNCHANGED histVars

\* Event::Input(k) if k == Key::Down || k == Key::Char('j')
KeyDown ==
    /\ pc = "match" /\ ev = "Down"
    /\ highlighted' = move_down(processes, highlighted)
    /\ EndArm
    /\ UNCHANGED <<i, cpu, memory, processes, total_memory, selected, sort, wants_sort>>
    /\ UNCHANGED histVars

\* Event::Input(Key::Char('\n'))
KeyEnter ==
    /\ pc = "match" /\ ev = "Enter"
    /\ selected' = confirm(highlighted, selected)
    /\ EndArm
    /\ UNCHANGED <<i, cpu, memory, processes, total_memory, highlighted, sort, wants_sort>>
    /\ UNCHANGED histVars

\* As KeyM, switching the active sort at the keypress.
KeyM_eager ==
    /\ pc = "match" /\ ev = "m"
    /\ wants_sort' = "Memory"
    /\ sort' = "Memory"
    /\ pc' = "draw"
    /\ ev' = NoEvent
    /\ UNCHANGED <<seed, frame, chanVars>>
    /\ UNCHANGED <<i, cpu, memory, processes, total_memory, highlighted, selected>>
    /\ UNCHANGED <<procList, cpuPushed, memPushed, refreshes, seenNames>>

\* Event::Input(k) if k == Key::Char('m')
KeyM ==
    /\ pc = "match" /\ ev = "m"
    /\ wants_sort' = "Memory"
    /\ EndArm
    /\ UNCHANGED <<i, cpu, memory, processes, total_memory, highlighted, selected, sort>>
    /\ UNCHANGED histVars

\* Event::Input(k) if k == Key::Char('c')
KeyC ==
    /\ pc = "match" /\ ev = "c"
    /\ wants_sort' = "Cpu"
    /\ EndArm
    /\ UNCHANGED <<i, cpu, memory, processes, total_memory, highlighted, selected, sort>>
    /\ UNCHANGED histVars

\* Event::Input(input): break on the exit keys, nothing otherwise.
KeyOther ==
    /\ pc = "match" /\ ev \in Keys \ {"Up", "Down", "Enter", "m", "c"}
    /\ IF is_exit(ev)
       THEN pc' = "done" /\ ev' = NoEvent /\ UNCHANGED <<seed, frame, chanVars>>
       ELSE EndArm
    /\ UNCHANGED <<i, appVars, histVars>>

\* As update_processes, always sorting by CPU.
update_processes_by_cpu(os, order, newSort) ==
    /\ procList' = os
    /\ processes' = get_processes(os, "Cpu", order)
    /\ total_memory' = TotalMemory
    /\ refreshes' = refreshes + 1
    /\ seenNames' = seenNames \cup Names(processes')

\* App::update_processes, the metrics source answering os in the order `order`.
update_processes(os, order, newSort) ==
    /\ procList' = os
    /\ processes' = get_processes(os, newSort, order)
    /\ total_memory' = TotalMemory
    /\ refreshes' = refreshes + 1
    /\ seenNames' = seenNames \cup Names(processes')

\* App::update_memory
update_memory ==
    LET memory_percentage == MemReading(seed, Len(memPushed))
    IN  /\ memory' = push_sample(memory, memory_percentage)
        /\ memPushed' = Append(memPushed, memory_percentage)

\* App::update_cpu
update_cpu ==
    LET cpu_percentage == CpuReading(seed, Len(cpuPushed))
    IN  /\ cpu' = push_sample(cpu, cpu_percentage)
        /\ cpuPushed' = Append(cpuPushed, cpu_percentage)

\* As update, with the two samples inside the if.
update_all_or_nothing(processes_, osLists, newSort) ==
    IF processes_
    THEN /\ \E os \in osLists : \E order \in Orders(os) :
                update_processes(os, order, newSort)
         /\ update_memory
         /\ update_cpu
    ELSE UNCHANGED <<procList, processes, total_memory, refreshes, seenNames,
                     memory, memPushed, cpu, cpuPushed>>

\* App::update, the metrics source holding one of the process lists osLists.
update(processes_, osLists, newSort) ==
    /\ IF processes_
       THEN \E os \in osLists : \E order \in Orders(os) :
                update_processes(os, order, newSort)
       ELSE UNCHANGED <<procList, processes, total_memory, refreshes, seenNames>>
    /\ update_memory
    /\ update_cpu

\* As tick, dropping the highlight whenever the table is refreshed.
tick_drops_highlight(osLists) ==
    /\ pc = "match" /\ ev = "Tick"
    /\ sort' = reconcile(sort, wants_sort)
    /\ update(update_processes_now(i, sort, wants_sort), osLists,
              reconcile(sort, wants_sort))
    /\ i' = i + 1
    /\ EndArm
    /\ highlighted' = IF update_processes_now(i, sort, wants_sort)
                      THEN None ELSE highlighted
    /\ UNCHANGED <<selected, wants_sort>>

\* Event::Tick
tick(osLists) ==
    /\ pc = "match" /\ ev = "Tick"
    /\ sort' = reconcile(sort, wants_sort)
    /\ update(update_processes_now(i, sort, wants_sort), osLists,
              reconcile(sort, wants_sort))
    /\ i' = i + 1
    /\ EndArm
    /\ UNCHANGED <<highlighted, selected, wants_sort>>

Tick == tick(OsLists)

TickQuiet == tick(QuietOsLists)

TickAgg == tick(AggOsLists)

EventsNextQuiet == next_from(QuietEvents, MaxLongTicks)

EventsNextAgg == next_from({"Tick", "m"}, MaxAggTicks)

\* The ticker producer: send(Event::Tick) every tick period.
Ticker ==
    /\ pc # "done"
    /\ Len(sentLog) < MaxSent
    /\ queue' = Append(queue, "Tick")
    /\ sentLog' = Append(sentLog, "Tick")
    /\ UNCHANGED <<pc, ev, i, seed, frame, recvLog>>
    /\ UNCHANGED <<appVars, histVars>>

\* The input producer: send(Event::Input(key)) for every key read.
InputProducer ==
    /\ pc # "done"
    /\ Len(sentLog) < MaxSent
    /\ \E k \in Keys :
         /\ queue' = Append(queue, k)
         /\ sentLog' = Append(sentLog, k)
    /\ UNCHANGED <<pc, ev, i, seed, frame, recvLog>>
    /\ UNCHANGED <<appVars, histVars>>

\* As recv, handing out the newest event.
recv_newest(q) == q[Len(q)]

\* The event the channel hands to a blocked recv().
recv(q) == Head(q)

\* events.next() on the channel: blocks while it is empty.
Recv ==
    /\ pc = "next"
    /\ queue # <<>>
    /\ ev' = recv(queue)
    /\ queue' = Tail(queue)
    /\ recvLog' = Append(recvLog, ev')
    /\ pc' = "match"
    /\ UNCHANGED <<i, seed, frame, sentLog>>
    /\ UNCHANGED <<appVars, histVars>>

Next ==
    \/ Draw
    \/ EventsNext
    \/ KeyUp
    \/ KeyDown
    \/ KeyEnter
    \/ KeyM
    \/ KeyC
    \/ KeyOther
    \/ Tick

Spec == Init /\ [][Next]_vars

\* A long run in which Memory sort is never requested.
NextLong ==
    \/ Draw
    \/ EventsNextQuiet
    \/ KeyUp
    \/ KeyDown
    \/ KeyEnter
    \/ KeyC
    \/ KeyOther
    \/ TickQuiet

SpecLong == Init /\ [][NextLong]_vars

\* The aggregator on large process lists, under both sort modes.
NextAgg ==
    \/ Draw
    \/ EventsNextAgg
    \/ KeyM
    \/ TickAgg

SpecAgg == Init /\ [][NextAgg]_vars

\* The loop fed by the two producers through the channel.
NextChan ==
    \/ Ticker
    \/ InputProducer
    \/ Draw
    \/ Recv
    \/ KeyUp
    \/ KeyDown
    \/ KeyEnter
    \/ KeyM
    \/ KeyC
    \/ KeyOther
    \/ TickQuiet

SpecChan == Init /\ [][NextChan]_vars

\* The steps of the loop of main, which runs on the main thread.
Consumer ==
    \/ Draw
    \/ Recv
    \/ KeyUp
    \/ KeyDown
    \/ KeyEnter
    \/ KeyM
    \/ KeyC
    \/ KeyOther
    \/ TickQuiet

\* As SpecChan, the main thread taking its next step whenever it has one: it
\* waits only in events.next(), and only while the channel is empty.
SpecChanFair == Init /\ [][NextChan]_vars /\ WF_vars(Consumer)

(* ------------------------------- claims ------------------------------- *)

\* The match is about to dispatch the event e.
Handling(e) == pc = "match" /\ ev = e

\* buf holds the last Min(Len(pushed), BUFFER_CAPACITY) samples of pushed,
\* the newest at the front.
HoldsMostRecent(buf, pushed) ==
    /\ Len(buf) = Min(Len(pushed), BUFFER_CAPACITY)
    /\ \A k \in 1..Len(buf) : buf[k] = pushed[Len(pushed) - k + 1]

\* C1: each history buffer never holds more than BUFFER_CAPACITY samples,
\* and it holds exactly the most recent pushed samples, newest first: once
\* more than BUFFER_CAPACITY samples were pushed, the oldest are the ones
\* that are gone.
C1_BufferBounded ==
    /\ Len(cpu) <= BUFFER_CAPACITY
    /\ Len(memory) <= BUFFER_CAPACITY
    /\ HoldsMostRecent(cpu, cpuPushed)
    /\ HoldsMostRecent(memory, memPushed)

\* C1 witness: two samples more than the capacity were pushed and the
\* buffers are full.
C1_Witness ==
    /\ Len(cpuPushed) = BUFFER_CAPACITY + 2
    /\ Len(memPushed) = BUFFER_CAPACITY + 2
    /\ Len(cpu) = BUFFER_CAPACITY
    /\ Len(memory) = BUFFER_CAPACITY

\* after is before with one sample pushed at the front, the oldest dropped
\* when the buffer was full.
OnePushed(before, after) ==
    /\ Len(after) = Min(Len(before) + 1, BUFFER_CAPACITY)
    /\ Tail(after) = SubSeq(before, 1, Len(after) - 1)

\* C2: the tick with index i runs the full refresh exactly when i is a
\* multiple of 8 or the requested sort mode differs from the active one; a
\* tick without refresh leaves the table and the total memory alone; every
\* tick, forced refresh or not, advances i by one, so the cadence is not
\* shifted; and no other event runs a refresh or advances i.
C2_RefreshCadence ==
    [][/\ Handling("Tick") =>
            /\ i' = i + 1
            /\ refreshes' = refreshes + 1 <=>
                   (i % RefreshEvery = 0 \/ wants_sort # sort)
            /\ refreshes' # refreshes + 1 =>
                   /\ refreshes' = refreshes
                   /\ UNCHANGED <<processes, total_memory, procList>>
            /\ refreshes' = refreshes + 1 => total_memory' = TotalMemory
       /\ ~Handling("Tick") => UNCHANGED <<i, refreshes>>]_vars

\* C2 witness: nine ticks are done; ticks 0 and 8 refreshed on cadence and
\* one tick in between was forced.
C2_Witness ==
    /\ i = RefreshEvery + 1
    /\ refreshes = 3
    /\ pc = "draw"

\* C3: a tick pushes exactly one sample into each history buffer, whether
\* it refreshes the table or not; no other event touches the buffers; and
\* after i ticks both buffers hold Min(i, BUFFER_CAPACITY) samples.
C3_OneSamplePerTick ==
    /\ [](/\ Len(cpu) = Min(i, BUFFER_CAPACITY)
          /\ Len(memory) = Min(i, BUFFER_CAPACITY))
    /\ [][/\ Handling("Tick") =>
               /\ OnePushed(cpu, cpu')
               /\ OnePushed(memory, memory')
               /\ Len(cpuPushed') = Len(cpuPushed) + 1
               /\ Len(memPushed') = Len(memPushed) + 1
          /\ ~Handling("Tick") =>
               UNCHANGED <<cpu, memory, cpuPushed, memPushed>>]_vars

\* C3 witness: more ticks than the capacity were processed, the last one
\* without a refresh, both buffers are full and a key is being handled.
C3_Witness ==
    /\ i = BUFFER_CAPACITY + 2
    /\ Len(cpu) = BUFFER_CAPACITY
    /\ Len(memory) = BUFFER_CAPACITY
    /\ Handling("Enter")

\* C4: a sort key changes nothing but the requested mode; no event but a
\* tick changes the table or the active mode; and a tick that finds the two
\* modes different makes the requested mode the active one and runs a full
\* refresh under that mode, whatever the tick index.
C4_SortRequest ==
    [][/\ Handling("m") =>
            /\ wants_sort' = "Memory"
            /\ UNCHANGED <<sort, processes, total_memory, procList, refreshes,
                           highlighted, selected, cpu, memory, i>>
       /\ Handling("c") =>
            /\ wants_sort' = "Cpu"
            /\ UNCHANGED <<sort, processes, total_memory, procList, refreshes,
                           highlighted, selected, cpu, memory, i>>
       /\ ~Handling("Tick") => UNCHANGED <<sort, processes>>
       /\ (Handling("Tick") /\ wants_sort # sort) =>
            /\ sort' = wants_sort
            /\ wants_sort' = wants_sort
            /\ refreshes' = refreshes + 1
            /\ \E order \in Orders(procList') :
                   processes' = get_processes(procList', wants_sort, order)]_vars

\* C4 witness: Memory sort was requested under Cpu sort and tick 2, off the
\* cadence, made it the active mode and refreshed a table of three groups
\* whose Memory order is not its Cpu order.
C4_Witness ==
    /\ pc = "draw"
    /\ i = 3
    /\ refreshes = 2
    /\ sort = "Memory"
    /\ Len(processes) = 3
    /\ \A order \in Orders(procList) :
           processes # get_processes(procList, "Cpu", order)

\* C5: handling the exit key or the interrupt key ends the loop at once,
\* from any state and without changing the data model; and once the loop has
\* ended no step is taken: no event is consumed and nothing is modified.
C5_ExitTerminates ==
    [][/\ (Handling("q") \/ Handling("Ctrl-c")) =>
            /\ pc' = "done"
            /\ UNCHANGED <<appVars, i, queue, recvLog>>
       /\ pc # "done"]_vars

\* C5 witness: the loop has ended from a state with a highlighted row, a
\* selected row, Memory sort and several ticks behind it.
C5_Witness ==
    /\ pc = "done"
    /\ highlighted # None
    /\ selected # None
    /\ selected # highlighted
    /\ sort = "Memory"
    /\ i > 2

\* C6: the consumer receives the events in the order the two producers
\* enqueued them: at every moment the events enqueued so far are exactly the
\* events received so far followed by the events still in the channel, so
\* none is lost, duplicated or reordered; and the event the match dispatches
\* is the one received last.
C6_Fifo ==
    /\ sentLog = recvLog \o queue
    /\ pc = "match" => (recvLog # <<>> /\ ev = recvLog[Len(recvLog)])
    /\ pc # "match" => ev = NoEvent

\* C6 witness: a key was received and handled while a tick and a later,
\* different key wait in the channel behind it.
C6_Witness ==
    /\ Len(recvLog) = 1
    /\ recvLog[1] \in Keys
    /\ Len(queue) = 2
    /\ queue[1] = "Tick"
    /\ queue[2] \in Keys \ {recvLog[1]}
    /\ pc = "draw"

\* The processes of procList that carry the name.
Members(name) == {k \in 1..Len(procList) : procList[k].name = name}

RECURSIVE SumOver(_, _)
\* The sum of f[k] over the k in K.
SumOver(K, f) ==
    IF K = {} THEN 0
    ELSE LET k == CHOOSE x \in K : TRUE
         IN  f[k] + SumOver(K \ {k}, f)

\* The sum of the j-th limbs of the memory of the processes K.
LimbSum(K, j) == SumOver(K, [k \in K |-> procList[k].memory[j]])

\* The exact sum of the memory of the processes K, as limbs and the carry
\* out of the 64 bits.
ExactMemory(K) ==
    LET c4 == LimbSum(K, 4)
        c3 == LimbSum(K, 3) + (c4 \div Limb)
        c2 == LimbSum(K, 2) + (c3 \div Limb)
        c1 == LimbSum(K, 1) + (c2 \div Limb)
    IN  [limbs |-> <<c1 % Limb, c2 % Limb, c3 % Limb, c4 % Limb>>,
         carry |-> c1 \div Limb]

\* C7: in the table a refresh built from a process list every name occurs
\* once, each group carries the exact sums of the CPU usage and of the
\* memory of the processes of its name and their number, there are
\* Min(number of distinct names, 100) groups, and an empty process list
\* gives an empty table.
C7_Aggregation ==
    /\ \A a, b \in 1..Len(processes) :
           processes[a].name = processes[b].name => a = b
    /\ \A a \in 1..Len(processes) :
           LET g == processes[a]
               K == Members(g.name)
           IN  /\ K # {}
               /\ g.count = Cardinality(K)
               /\ g.cpu_usage = SumOver(K, [k \in K |-> procList[k].cpu_usage])
               /\ g.memory = ExactMemory(K).limbs
               /\ ExactMemory(K).carry = 0
    /\ Len(processes) = Min(Cardinality({procList[k].name : k \in 1..Len(procList)}),
                            TakeLimit)
    /\ procList = <<>> => processes = <<>>

\* C7 witness: a refresh of a process list with more than 100 names left
\* 100 groups, one of them of two processes with 2^32 or more of memory.
C7_Witness ==
    /\ refreshes = 1
    /\ Cardinality({procList[k].name : k \in 1..Len(procList)}) > TakeLimit
    /\ Len(processes) = TakeLimit
    /\ \E a \in 1..Len(processes) :
           processes[a].count = 2 /\ processes[a].memory[2] > 0

\* a < b on u64 values.
U64Less(a, b) ==
    \E j \in 1..4 : a[j] < b[j] /\ \A k \in 1..(j - 1) : a[k] = b[k]

\* C8: under Memory sort the table is in descending order of the groups'
\* memory totals, as u64 values, and the groups the truncation dropped have
\* totals no larger than those it kept.
C8_MemoryDescending ==
    sort = "Memory" =>
        /\ \A a, b \in 1..Len(processes) :
               a < b => ~U64Less(processes[a].memory, processes[b].memory)
        /\ \A k \in 1..Len(procList) :
               (\A a \in 1..Len(processes) : processes[a].name # procList[k].name)
                   => \A a \in 1..Len(processes) :
                          ~U64Less(processes[a].memory,
                                   ExactMemory(Members(procList[k].name)).limbs)

\* C9: with no row highlighted, Up leaves the highlight unset and changes
\* nothing else; Down highlights the first row of the table, or leaves the
\* highlight unset when the table is empty.
C9_UnsetHighlight ==
    [][/\ (Handling("Up") /\ highlighted = None) =>
            /\ highlighted' = None
            /\ UNCHANGED <<selected, processes, total_memory, sort, wants_sort,
                           cpu, memory, i>>
       /\ (Handling("Down") /\ highlighted = None /\ processes # <<>>) =>
            highlighted' = processes[1].name
       /\ (Handling("Down") /\ highlighted = None /\ processes = <<>>) =>
            highlighted' = None]_vars

\* C9 witness: Down is dispatched with no row highlighted and a table of
\* three rows.
C9_Witness ==
    /\ Handling("Down")
    /\ highlighted = None
    /\ Len(processes) = 3

\* C10: Enter with row h highlighted clears the selection when h is the
\* selected row and selects h otherwise; with no row highlighted it leaves
\* the selection alone; and it never changes the highlight.
C10_ConfirmToggles ==
    [][Handling("Enter") =>
           /\ highlighted' = highlighted
           /\ (highlighted # None /\ selected = highlighted) => selected' = None
           /\ (highlighted # None /\ selected # highlighted) =>
                  selected' = highlighted
           /\ highlighted = None => selected' = selected]_vars

\* C10 witness: Enter is dispatched a second time on the highlighted row,
\* which the first Enter selected.
C10_Witness ==
    /\ Handling("Enter")
    /\ highlighted # None
    /\ selected = highlighted

InSnapshot(name) == \E a \in 1..Len(processes) : processes[a].name = name

Stale(ref) == ref # None /\ ~InSnapshot(ref)

\* C11: when app.highlighted holds a name that no row of the current table has,
\* the next Up or Down key sets it to None: the name is not kept and no other
\* row is taken.
C11_StaleHighlightResets ==
    [][ (Handling("Up") \/ Handling("Down")) /\ Stale(highlighted)
        => highlighted' = None /\ pc' = "draw" ]_vars

\* An Up key arrives while the highlighted name has left a table that still
\* has rows.
C11_Witness ==
    /\ Handling("Up")
    /\ Stale(highlighted)
    /\ processes # <<>>

\* C12 as stated: neither app.highlighted nor app.selected ever holds a name
\* that no row of the current table has.
C12_NoStaleReference ==
    ~Stale(highlighted) /\ ~Stale(selected)

\* C12, amended: a Tick, refreshing or not, leaves app.highlighted and
\* app.selected as they are, so either may hold a name the table has lost;
\* a stale app.highlighted changes only in the Up and Down arms, which set it
\* to None, and a stale app.selected changes only in the Enter arm with a
\* highlighted name, to what that arm gives.
C12_LazyReset ==
    [][ /\ Handling("Tick")
            => highlighted' = highlighted /\ selected' = selected
        /\ Stale(highlighted) /\ highlighted' # highlighted
            => (Handling("Up") \/ Handling("Down")) /\ highlighted' = None
        /\ Stale(highlighted) /\ (Handling("Up") \/ Handling("Down"))
            => highlighted' = None
        /\ Stale(selected) /\ selected' # selected
            => /\ Handling("Enter")
               /\ highlighted # None
               /\ selected' = confirm(highlighted, selected) ]_vars

\* A refresh has just replaced the table and both references hold names it
\* does not have.
C12_Witness ==
    /\ pc = "draw"
    /\ processes # <<>>
    /\ Stale(highlighted)
    /\ Stale(selected)
    /\ frame # <<>> /\ frame[3] # processes

\* C13 as stated: an Enter key that finds app.selected holding a name no row of
\* the current table has sets app.selected to None, whatever app.highlighted is.
C13_ConfirmClearsStale ==
    [][ Handling("Enter") /\ Stale(selected) => selected' = None ]_vars

\* C13, amended: the Enter arm never looks at the table. When app.selected
\* holds a name no row has, Enter leaves it as it is if nothing is highlighted,
\* sets it to None if the same name is highlighted, and otherwise sets it to
\* the highlighted name.
C13_ConfirmIgnoresSnapshot ==
    [][ Handling("Enter") /\ Stale(selected)
        => selected' = IF highlighted = None THEN selected
                       ELSE IF highlighted = selected THEN None
                       ELSE highlighted ]_vars

\* An Enter key arrives while the selected name has left the table and nothing
\* is highlighted.
C13_Witness ==
    /\ Handling("Enter")
    /\ Stale(selected)
    /\ highlighted = None
    /\ processes # <<>>

\* C14: app.sort and app.wants_sort are equal at start and right after every
\* Tick; only the 'm' and 'c' arms make them differ; app.sort changes only in
\* the Tick arm, and a Tick that changes it calls update_processes in the same
\* step, with the new mode.
C14_SortReconciled ==
    /\ sort = wants_sort
    /\ [][ /\ Handling("Tick") => sort' = wants_sort' /\ sort' = wants_sort
           /\ sort' # sort
                => /\ Handling("Tick")
                   /\ refreshes' = refreshes + 1
                   /\ \E order \in Orders(procList') :
                        processes' = get_processes(procList', sort', order)
           /\ sort = wants_sort /\ sort' # wants_sort'
                => Handling("m") \/ Handling("c") ]_vars

\* A Tick off the cadence has switched the active mode back to Cpu after an
\* earlier switch to Memory.
C14_Witness ==
    /\ pc = "draw"
    /\ sort = "Cpu" /\ wants_sort = "Cpu"
    /\ frame # <<>> /\ frame[7] = "Memory" /\ frame[8] = "Cpu"
    /\ i % RefreshEvery # 1
    /\ Len(processes) = 3

\* C15: the loop alternates terminal.draw, events.next() and one match arm.
\* Every event is taken right after a draw that was given the data model as it
\* is at that moment, which is the model the arm of the previous event left;
\* between two events taken there is that one draw and no other, and neither
\* the draw nor events.next() changes the model.
C15_RenderBetweenEvents ==
    [][ /\ pc = "draw"
            => pc' = "next" /\ frame' = appVars /\ appVars' = appVars
        /\ pc = "next"
            => /\ pc' = "match"
               /\ frame = appVars
               /\ frame' = frame /\ appVars' = appVars
        /\ pc = "match"
            => pc' \in {"draw", "done"} /\ frame' = frame ]_vars

\* An event is taken after arms of earlier events have changed the model and
\* the draw before it was given the changed model.
C15_Witness ==
    /\ pc = "match"
    /\ frame = appVars
    /\ i >= 2
    /\ highlighted # None
    /\ selected # None

\* C16: with app.highlighted on row k of a table of n rows, an Up key moves it
\* to row k-1, or to None from the first row; a Down key moves it to row k+1,
\* or to None from the last row. Neither wraps around nor stays on the edge.
C16_MoveByOneRow ==
    [][ \A k \in 1..Len(processes) :
          processes[k].name = highlighted
          => /\ Handling("Up")
                => highlighted' = IF k > 1 THEN processes[k - 1].name ELSE None
             /\ Handling("Down")
                => highlighted' = IF k < Len(processes)
                                  THEN processes[k + 1].name ELSE None ]_vars

\* A Down key arrives with the highlight on the last of three rows.
C16_Witness ==
    /\ Handling("Down")
    /\ Len(processes) = 3
    /\ highlighted = processes[3].name

\* The fields the Tick arm and App::update write.
tickVars == <<processes, total_memory, cpu, memory, i, sort>>

\* C17: no Input arm changes the table, the total memory, the two history
\* buffers, the counter i or app.sort; the Tick arm changes none of
\* app.highlighted, app.selected and app.wants_sort; of the rest, the Up and
\* Down arms change only app.highlighted, the Enter arm only app.selected, the
\* 'm' and 'c' arms only app.wants_sort, and any other key that does not end
\* the loop changes nothing.
C17_Frame ==
    [][ /\ (\E k \in Keys : Handling(k)) => tickVars' = tickVars
        /\ Handling("Tick")
            => <<highlighted, selected, wants_sort>>'
               = <<highlighted, selected, wants_sort>>
        /\ Handling("Up") \/ Handling("Down")
            => <<selected, wants_sort>>' = <<selected, wants_sort>>
        /\ Handling("Enter")
            => <<highlighted, wants_sort>>' = <<highlighted, wants_sort>>
        /\ Handling("m") \/ Handling("c")
            => <<highlighted, selected>>' = <<highlighted, selected>>
        /\ Handling("x")
            => /\ <<highlighted, selected, wants_sort>>'
                  = <<highlighted, selected, wants_sort>>
               /\ pc' = "draw" ]_vars

\* An 'm' key arrives while a row is highlighted, another is selected and
\* samples have been taken.
C17_Witness ==
    /\ Handling("m")
    /\ highlighted # None /\ selected # None /\ highlighted # selected
    /\ sort = "Cpu" /\ wants_sort = "Cpu"
    /\ cpu # <<>> /\ Len(processes) = 3

\* C18: in every state the table is one that get_processes gives under the
\* current app.sort for the process list of the last refresh, and so is in
\* descending order of the key get_processes uses for that mode; this holds
\* also while app.wants_sort differs from app.sort and after 'm' then 'c' with
\* no Tick in between.
C18_SnapshotUnderActiveSort ==
    /\ \E order \in Orders(procList) :
           processes = get_processes(procList, sort, order)
    /\ \A a, b \in 1..Len(processes) :
           a < b => ~U32Less(sort_key(processes[a], sort),
                             sort_key(processes[b], sort))

\* A 'c' key arrives right after an 'm' key, with no Tick in between: Cpu is
\* still the active mode and the table of three groups is not one that Memory
\* sort gives.
C18_Witness ==
    /\ Handling("c")
    /\ sort = "Cpu" /\ wants_sort = "Memory"
    /\ Len(processes) = 3
    /\ \A order \in Orders(procList) :
           processes # get_processes(procList, "Memory", order)

\* C19: app.highlighted changes only in the Up and Down arms, to None or to
\* the name of a row of the table as it is then; app.selected changes only in
\* the Enter arm, to None or to the name app.highlighted holds then. Hence
\* both only ever hold names that some table since startup has held, and stay
\* None as long as every table has been empty.
C19_ReferencesFromSnapshot ==
    /\ [](/\ highlighted \in seenNames \cup {None}
          /\ selected \in seenNames \cup {None})
    /\ [][ /\ highlighted' # highlighted
               => /\ Handling("Up") \/ Handling("Down")
                  /\ highlighted' = None \/ InSnapshot(highlighted')
                  /\ processes' = processes
           /\ selected' # selected
               => /\ Handling("Enter")
                  /\ selected' = None \/ selected' = highlighted ]_vars

\* A Down key arrives after two refreshes, every table so far having been
\* empty.
C19_Witness ==
    /\ Handling("Down")
    /\ refreshes >= 2
    /\ seenNames = {}
    /\ highlighted = None /\ selected = None

\* The keys that end the loop.
ExitKeys == {"q", "Ctrl-c"}

ExitSent == \E k \in 1..Len(sentLog) : sentLog[k] \in ExitKeys

\* The position in sentLog of the first key that ends the loop.
FirstExit ==
    CHOOSE k \in 1..Len(sentLog) :
        /\ sentLog[k] \in ExitKeys
        /\ \A j \in 1..(k - 1) : sentLog[j] \notin ExitKeys

\* C20: once a key that ends the loop has been enqueued, the loop ends; when
\* it has ended, the events taken are exactly the events enqueued up to and
\* including that key, in order, so every event enqueued before it was handled
\* and none enqueued after it, tick or key, is ever taken.
C20_ExitLiveness ==
    /\ ExitSent ~> pc = "done"
    /\ [](pc = "done" => ExitSent /\ recvLog = SubSeq(sentLog, 1, FirstExit))
    /\ [](ExitSent => Len(recvLog) <= FirstExit)

\* The loop has ended on an exit key that was enqueued behind another event,
\* and a tick enqueued after the key is left in the channel.
C20_Witness ==
    /\ pc = "done"
    /\ Len(sentLog) = 3
    /\ sentLog[2] \in ExitKeys
    /\ sentLog[1] \notin ExitKeys
    /\ sentLog[3] = "Tick"
    /\ queue = <<"Tick">>
    /\ recvLog = SubSeq(sentLog, 1, 2)

============================================================================
